---- MODULE Spec2Model ----
(***************************************************************************)
(* Playback synchronisation core of EasyStaff: the PartiturePlayer engine  *)
(* (src/src/utils/partiture-player.ts), its per-surface hosts and the      *)
(* PianoAudioPlayer scheduler (src/src/utils/audio-engine.ts).             *)
(*                                                                         *)
(* Number representation.  Times are integers in milliseconds; the audio   *)
(* clock, which the code reads in seconds, is held in milliseconds too, so *)
(* `seconds * MS_PER_SECOND` is the stored value.  Beat positions are      *)
(* fixed-point numbers in thousandths of a beat (BeatUnit per beat).       *)
(* Pixel offsets are whole pixels.                                         *)
(*                                                                         *)
(* The timeline deriver prepareNotesForAudio                               *)
(* (src/src/utils/audio-helpers.ts) is a pure function; it is modelled as  *)
(* operators and exercised by SpecTimeline over bounded notation inputs.   *)
(* The legacy notation parser parseNotation                                *)
(* (src/src/utils/notation-parser.ts) is exercised by SpecNotation over    *)
(* notation lines written out character by character.                      *)
(***************************************************************************)
EXTENDS Integers, Sequences, FiniteSets, TLC

\* ------------------------------------------------------------------ bounds
MaxPending == 2
MaxTicks == 1
\* notes in a part handed to prepareNotesForAudio, over at most two measures
MaxNotes == 4
\* tokens in a notation line handed to parseNotation
MaxTokens == 3

\* ------------------------------------------------- program constants/config
MS_PER_SECOND == 1000
defaultTempo == 120
totalBeatsHint == 0
playStartDelayMs == 1000

BeatUnit == MS_PER_SECOND
TimeStep == playStartDelayMs

\* ------------------------------------------------------------ input domains
\* A rendered surface (.staff-host): number of .beat markers and the pixel
\* distance measured between neighbouring markers (0: not measurable).
\* `lay` is what remeasure() reads from the layout: the measured spacing, the
\* scroll range, the scroll offset that puts beat 0 under the playhead and
\* the host's width.
Spacings == {0, 2}
Layouts ==
  { [spacing |-> s, maxScroll |-> 4, desired |-> 0, width |-> 100] :
      s \in Spacings }
Measured == { [beats |-> 2, lay |-> l] : l \in Layouts }
Surfaces ==
  Measured \cup
  { [beats |-> 0, lay |-> [spacing |-> 0, maxScroll |-> 0, desired |-> 0,
                           width |-> 100]] }
\* what rebuild() finds in the document: no surface, one surface, or two
\* surfaces of which the first has measurable beat spacing
OneHost == { <<>> } \cup { <<s>> : s \in Surfaces }
DomConfigs ==
  OneHost \cup { <<s, t>> \in Measured \X Measured : s.lay.spacing > 0 }

\* Values handed to setTempo / piano:tempo-change, after Number(newTempo).
Num(v) == [kind |-> "num", val |-> v]
NaN == [kind |-> "nan", val |-> 0]
Infinity == [kind |-> "inf", val |-> 0]
TempoInputs == { Num(60), Num(120), Num(0), Num(0 - 60), NaN, Infinity }

\* Seek details: absolute beat, 0..1 progress fraction (in thousandths) or
\* relative delta; "none" is a missing detail, "empty" is {}.
Detail(k, v) == [kind |-> k, val |-> v]
SeekDetails ==
  { Detail("none", 0), Detail("empty", 0),
    Detail("beat", 1000), Detail("beat", 3000), Detail("beat", 0 - 1000),
    Detail("progress", 500), Detail("deltaBeat", 1000) }

\* Pointer, wheel and scroll inputs (pixels).
PointerDownXs == {0}
PointerXs == {0 - 2, 2}
WheelDeltas == {0 - 2, 2}
ScrollXs == {0, 2}

\* The note list handed to setAudioData: beats are 1-based, in BeatUnit.
notesForAudio ==
  << [beat |-> 1000, pitch |-> TRUE],
     [beat |-> 2000, pitch |-> TRUE],
     [beat |-> 2000, pitch |-> FALSE] >>

NULL == 0 - 1

\* Notation input of the timeline deriver (content.config.ts: Part, Measure,
\* Note).  An absent optional field is held as: NoPitch for pitch, NoAlter
\* for alter, 0 for staff, FALSE for isChord, "" for the tie markers
\* (note.tie and note.notations.tied.type).  A measure's attributes are
\* NoAttributes when absent; attributes without a time signature have
\* time = NoTime.
NoAlter == 0 - 99
NoPitch == [step |-> "", octave |-> 0, alter |-> NoAlter]
Pitch(step) == [step |-> step, octave |-> 4, alter |-> NoAlter]
Note(pitch, staff, voice, duration, isChord, tie, tied) ==
  [pitch |-> pitch, staff |-> staff, voice |-> voice, duration |-> duration,
   isChord |-> isChord, tie |-> tie, tied |-> tied]
NoteShapes ==
  { Note(Pitch("C"), 1, 1, 1, FALSE, "", ""),
    Note(Pitch("C"), 1, 1, 2, FALSE, "start", ""),
    Note([Pitch("C") EXCEPT !.alter = 0], 1, 1, 1, FALSE, "stop", "start"),
    Note(Pitch("C"), 1, 1, 3, FALSE, "", "stop"),
    Note(Pitch("D"), 1, 1, 1, TRUE, "", ""),
    Note(NoPitch, 0, 1, 2, FALSE, "", ""),
    Note(Pitch("C"), 2, 1, 1, FALSE, "stop", ""),
    Note(Pitch("C"), 1, 2, 1, FALSE, "stop", "") }
NoTime == [beats |-> 0 - 1]
NoAttributes == [time |-> [beats |-> 0 - 2]]
Attributes(beats) == [time |-> [beats |-> beats]]
\* measures declare three beats or carry no attributes at all
MeasureAttributes == { NoAttributes, Attributes(3) }
Measure(attributes, notes) == [attributes |-> attributes, notes |-> notes]
NoteLists ==
  UNION { [1..n -> NoteShapes] : n \in 0..MaxNotes }
\* the part without measures and the part whose only measure has
\* attributes without `time`
BrokenParts ==
  { [measures |-> <<>>],
    [measures |-> << Measure([time |-> NoTime], <<>>) >>] }
\* the note list l in one measure, or split after its k-th note over two
OneMeasure(a, l) == [measures |-> << Measure(a, l) >>]
TwoMeasures(a, b, l, k) ==
  [measures |-> << Measure(a, SubSeq(l, 1, k)),
                   Measure(b, SubSeq(l, k + 1, Len(l))) >>]

\* Notation lines of the legacy parser, as the README's schema writes them.
\* A written token is a rest `.`, a note `do` with trailing dashes, a chord
\* `do-chord` with trailing dashes, or a bracketed group of notes; inner
\* lists the dash counts of a group's notes.  A line is a string, held as
\* the sequence of its characters: "d" is a note name, "K" the letters
\* `chord`.
Written(kind, dashes, inner) ==
  [kind |-> kind, dashes |-> dashes, inner |-> inner]
WrittenTokens ==
  { Written("rest", 0, <<>>) }
  \cup { Written("note", k, <<>>) : k \in 0..2 }
  \cup { Written("chord", k, <<>>) : k \in 0..1 }
  \cup { Written("group", 0, i) :
           i \in { <<0>>, <<1>>, <<0, 1>>, <<2, 0>> } }
Notations == UNION { [1..n -> WrittenTokens] : n \in 0..MaxTokens }

Dashes(k) == [i \in 1..k |-> "-"]
RECURSIVE JoinWords(_)
JoinWords(words) ==
  IF words = <<>> THEN <<>>
  ELSE IF Len(words) = 1 THEN words[1]
  ELSE words[1] \o << " " >> \o JoinWords(Tail(words))
WriteToken(t) ==
  CASE t.kind = "rest" -> << "." >>
    [] t.kind = "note" -> << "d" >> \o Dashes(t.dashes)
    [] t.kind = "chord" -> << "d", "-", "K" >> \o Dashes(t.dashes)
    [] OTHER ->
         << "[" >>
         \o JoinWords([i \in 1..Len(t.inner) |->
                          << "d" >> \o Dashes(t.inner[i])])
         \o << "]" >>
WriteLine(notation) ==
  JoinWords([i \in 1..Len(notation) |-> WriteToken(notation[i])])

\* ------------------------------------------------------------------- state
VARIABLES
  tempo, msPerBeat,        \* PlayerState.tempo, PlayerState.msPerBeat
  hosts,                   \* PlayerState.hosts: sequence of HostContext
  playing,                 \* PlayerState.playing
  rafId,                   \* PlayerState.rafId !== null
  audioScheduled,          \* PlayerState.audioScheduled
  audioStartTime,          \* PlayerState.audioStartTime (NULL or ms)
  audioStartBeat,          \* PlayerState.audioStartBeat
  audioInitialized,        \* PartiturePlayer.audioInitialized
  prefersReducedMotion,    \* config.prefersReducedMotion
  audioAvailable,          \* environment: `new AudioContext()` succeeds
  audioContext,            \* PianoAudioPlayer.audioContext !== null
  isInitialized,           \* PianoAudioPlayer.isInitialized
  scheduledNotes,          \* PianoAudioPlayer.scheduledNotes
  pending,                 \* setPlaying(true) calls suspended at their await
  now,                     \* performance.now()
  audioNow,                \* audioContext.currentTime
  calls,                   \* scheduleAudio calls made by the last operation
  part,                    \* the Part handed to prepareNotesForAudio
  returned,                \* prepareNotesForAudio has returned or thrown
  allNotes,                \* its first-pass list (allNotes)
  audioNotes,              \* its outcome: thrown, or the AudioNote[] returned
  notation,                \* the tokens a notation line was written from
  line,                    \* the line handed to parseNotation
  measures                 \* the Measure[] parseNotation returned

engineVars == << tempo, msPerBeat, hosts, playing, rafId, audioScheduled,
                 audioStartTime, audioStartBeat, audioInitialized,
                 prefersReducedMotion, audioAvailable, audioContext,
                 isInitialized, scheduledNotes, pending, now, audioNow,
                 calls >>
timelineVars == << part, returned, allNotes, audioNotes >>
notationVars == << notation, line, measures >>
vars == << engineVars, timelineVars, notationVars >>

\* ----------------------------------------------------------------- helpers
Min(a, b) == IF a < b THEN a ELSE b
Max(a, b) == IF a > b THEN a ELSE b

\* PartiturePlayer.clamp: Math.min(max, Math.max(min, value))
clampUnbounded(value, min, max) == value
clamp(value, min, max) == Min(max, Max(min, value))

\* JavaScript % : the result takes the sign of the dividend.
JsMod(a, b) == IF a >= 0 THEN a % b ELSE 0 - ((0 - a) % b)

\* Number.isFinite(tempoValue) && tempoValue > 0
TempoAcceptedNoSignCheck(t) == t.kind = "num" /\ t.val # 0
TempoAccepted(t) == t.kind = "num" /\ t.val > 0

HostIds == 1..Len(hosts)

\* ------------------------------------------------------- host (HostContext)
\* setScroll: clamp, skip sub-half-pixel moves, flag the echo scroll event.
setScroll(h, value) ==
  LET clamped == clamp(value, 0, h.maxScroll) IN
  IF h.scrollLeft = clamped THEN h
  ELSE [h EXCEPT !.ignoreScroll = TRUE, !.scrollLeft = clamped]

syncScroll(h) ==
  LET spacing == IF h.spacing > 0 THEN h.spacing ELSE 0
      target == IF spacing # 0
                THEN h.initialScroll + (h.progress * spacing) \div BeatUnit
                ELSE h.initialScroll
  IN setScroll(h, target)

\* setBeat(beat, {sync, source}); lastProgress is write-only and not kept.
setBeat(h, beat, sync, source) ==
  LET clamped == clamp(beat, 0, h.totalBeats * BeatUnit)
      h1 == [h EXCEPT !.progress = clamped]
      h2 == IF sync THEN syncScroll(h1) ELSE h1
  IN IF source # "tick" /\ h2.playing /\ ~h2.reduced
     THEN [h2 EXCEPT !.playStartBeat = clamped, !.playStartTime = now]
     ELSE h2

\* host handleSeek(detail)
hostHandleSeekAbsolute(h, detail) ==
  IF detail.kind \in {"none", "empty"} THEN h
  ELSE setBeat(h, detail.val, TRUE, "set")
hostHandleSeek(h, detail) ==
  CASE detail.kind = "beat" -> setBeat(h, detail.val, TRUE, "set")
    [] detail.kind = "progress" ->
         setBeat(h, (detail.val * h.totalBeats * BeatUnit) \div 1000,
                 TRUE, "set")
    [] detail.kind = "deltaBeat" ->
         setBeat(h, h.progress + detail.val, TRUE, "set")
    [] OTHER -> h

\* handleScroll, after the browser moved scrollLeft to x
handleScroll(h) ==
  IF h.ignoreScroll \/ h.spacing <= 0 THEN h
  ELSE setBeat(h, ((h.scrollLeft - h.initialScroll) * BeatUnit) \div h.spacing,
               FALSE, "scroll")

startInterval(h) ==
  IF h.interval \/ h.totalBeats <= 0 THEN h
  ELSE [h EXCEPT !.interval = TRUE, !.intervalBeat = h.progress,
                 !.timers = @ + 1]

stopInterval(h) ==
  IF ~h.interval THEN h
  ELSE [h EXCEPT !.interval = FALSE, !.intervalBeat = 0, !.timers = @ - 1]

\* the setInterval callback of startInterval
intervalStep(h) ==
  LET beat == JsMod(h.intervalBeat + BeatUnit, h.totalBeats * BeatUnit) IN
  setBeat([h EXCEPT !.intervalBeat = beat], beat, TRUE, "interval")

hostPlay(h) ==
  IF h.playing THEN h
  ELSE LET h1 == [h EXCEPT !.playing = TRUE, !.hasLooped = FALSE] IN
       IF h1.reduced THEN startInterval(h1)
       ELSE LET delay == IF h1.progress <= 0 THEN playStartDelayMs ELSE 0 IN
            [h1 EXCEPT !.playStartBeat = h1.progress,
                       !.playStartTime = now + delay]

hostPauseKeepsInterval(h) ==
  IF ~h.playing THEN h ELSE [h EXCEPT !.playing = FALSE]
hostPause(h) ==
  IF ~h.playing THEN h
  ELSE LET h1 == [h EXCEPT !.playing = FALSE] IN
       IF h1.reduced THEN stopInterval(h1) ELSE h1

onTempoChangeRewind(h) == [h EXCEPT !.progress = 0]
onTempoChange(h) ==
  IF h.reduced
  THEN LET wasRunning == h.playing
           h1 == stopInterval(h)
       IN IF wasRunning THEN startInterval(h1) ELSE h1
  ELSE IF h.playing
       THEN [h EXCEPT !.playStartBeat = h.progress, !.playStartTime = now]
       ELSE h

\* remeasure(): lay is what the layout measures at this moment
remeasure(h, lay) ==
  LET measured == IF h.nbeats < 2 THEN 0 ELSE lay.spacing
      h1 == IF measured <= 0
            THEN [h EXCEPT !.spacing = 0, !.reduced = TRUE]
            ELSE [h EXCEPT !.spacing = measured]
      h2 == [h1 EXCEPT !.maxScroll = Max(0, lay.maxScroll)]
      desiredScroll == clamp(IF h.nbeats > 0 THEN lay.desired ELSE 0,
                             0, h2.maxScroll)
      h3 == IF ~h2.initialised
            THEN [h2 EXCEPT !.initialScroll = 0, !.initialised = TRUE]
            ELSE [h2 EXCEPT !.initialScroll = desiredScroll]
      h4 == syncScroll(h3)
  IN [h4 EXCEPT !.observer = (lay.width # 0)]

\* destroy(): pause, stop the interval, disconnect the observer, cancel the
\* scroll-echo frame, remove the six input listeners
destroyKeepsListeners(h) == stopInterval(hostPause(h))
destroy(h) ==
  LET h1 == stopInterval(hostPause(h)) IN
  [h1 EXCEPT !.observer = FALSE, !.ignoreScroll = FALSE, !.attached = FALSE]

\* createHost(hostEl) for a surface with a .staff-grid
createHost(surface) ==
  LET total == IF surface.beats # 0 THEN surface.beats ELSE totalBeatsHint
      sp == IF surface.beats < 2 THEN 0 ELSE surface.lay.spacing
      ctx == [ nbeats |-> surface.beats, totalBeats |-> total,
               spacing |-> IF sp <= 0 THEN 0 ELSE sp,
               progress |-> 0, maxScroll |-> 0, initialScroll |-> 0,
               scrollLeft |-> 0,
               playing |-> FALSE, playStartBeat |-> 0, playStartTime |-> 0,
               scrubbing |-> FALSE, resumeAfterScrub |-> FALSE,
               scrubStartX |-> 0, scrubStartBeat |-> 0, hasLooped |-> FALSE,
               ignoreScroll |-> FALSE, observer |-> FALSE,
               interval |-> FALSE, intervalBeat |-> 0, timers |-> 0,
               initialised |-> FALSE,
               reduced |-> (prefersReducedMotion \/ total = 0
                            \/ surface.beats = 0 \/ sp <= 0),
               attached |-> TRUE ]
  IN remeasure(ctx, surface.lay)

\* ------------------------------------------------------------------ engine
\* The mutable program state as one record, so that a handler is a function
\* from state to state and handlers can call one another.
World ==
  [ tempo |-> tempo, msPerBeat |-> msPerBeat, hosts |-> hosts,
    playing |-> playing, rafId |-> rafId, audioScheduled |-> audioScheduled,
    audioStartTime |-> audioStartTime, audioStartBeat |-> audioStartBeat,
    audioInitialized |-> audioInitialized, audioContext |-> audioContext,
    isInitialized |-> isInitialized, scheduledNotes |-> scheduledNotes,
    pending |-> pending,
    audioNow |-> audioNow, calls |-> <<>> ]

MapHosts(w, F(_)) ==
  [w EXCEPT !.hosts = [i \in 1..Len(w.hosts) |-> F(w.hosts[i])]]

\* PianoAudioPlayer.stopAll
stopAllKeepsNotes(w) == w
stopAll(w) ==
  IF ~w.audioContext THEN w ELSE [w EXCEPT !.scheduledNotes = {}]

\* PianoAudioPlayer.getCurrentTime
getCurrentTime(w) ==
  IF ~w.audioContext \/ ~w.isInitialized THEN NULL ELSE w.audioNow

\* PianoAudioPlayer.scheduleNotes(notes, beatsPerMinute, divisions, startBeat)
\* with playNote's actualStartTime = max(now, startTime); the fifth argument
\* the engine passes (delayMs) has no parameter to receive it.
scheduleNotes(w, startBeat) ==
  IF ~w.audioContext \/ ~w.isInitialized THEN w
  ELSE LET secondsPerBeat == (60 * MS_PER_SECOND) \div w.tempo
           startTime(beat) ==
             w.audioNow + ((beat - startBeat) * secondsPerBeat) \div BeatUnit
       IN [w EXCEPT !.scheduledNotes =
             w.scheduledNotes \cup
             { [beat |-> notesForAudio[k].beat,
                at |-> Max(w.audioNow, startTime(notesForAudio[k].beat))] :
               k \in { j \in 1..Len(notesForAudio) :
                         /\ notesForAudio[j].beat >= startBeat
                         /\ notesForAudio[j].pitch } }]

\* PartiturePlayer.scheduleAudio(fromBeat, delayMs): the state after the call
\* and its return value (NULL or the audio start time).
Call(fromBeat, delayMs, ret) ==
  [fromBeat |-> fromBeat, delayMs |-> delayMs, ret |-> ret]

scheduleAudio(w, fromBeat, delayMs) ==
  IF ~w.audioInitialized
  THEN [w |-> [w EXCEPT !.calls = Append(w.calls,
                                          Call(fromBeat, delayMs, NULL))],
        ret |-> NULL]
  ELSE LET w1 == stopAll(w)
           audioTime == getCurrentTime(w1)
       IN IF audioTime = NULL
          THEN [w |-> [w1 EXCEPT !.calls = Append(w.calls,
                                          Call(fromBeat, delayMs, NULL))],
                ret |-> NULL]
          ELSE LET w2 == scheduleNotes(w1, fromBeat)
                   \* audioTime + delayMs / 1000 seconds, held in ms
                   ret == audioTime + delayMs
               IN [w |-> [w2 EXCEPT !.audioScheduled = TRUE,
                                    !.calls = Append(w.calls,
                                         Call(fromBeat, delayMs, ret))],
                   ret |-> ret]

\* `const t = this.scheduleAudio(beat, delay); if (t !== null) { anchor }`
scheduleWithoutAnchor(w, beat, delayMs) == scheduleAudio(w, beat, delayMs).w
scheduleAndAnchor(w, beat, delayMs) ==
  LET r == scheduleAudio(w, beat, delayMs) IN
  IF r.ret # NULL
  THEN [r.w EXCEPT !.audioStartTime = r.ret, !.audioStartBeat = beat]
  ELSE r.w

\* PartiturePlayer.stopAudio
stopAudioKeepsAnchor(w) ==
  IF ~w.audioInitialized THEN w ELSE [stopAll(w) EXCEPT !.audioScheduled = FALSE]
stopAudio(w) ==
  IF ~w.audioInitialized THEN w
  ELSE [stopAll(w) EXCEPT !.audioScheduled = FALSE, !.audioStartTime = NULL]

\* setPlaying(shouldPlay) up to its first await; initialize() is entered when
\* neither the engine nor the scheduler is initialized yet, and its
\* `new AudioContext()` throws (caught and logged) when audio is unavailable.
\* A suspended call is queued in `pending`: "timer" waits for the setTimeout
\* inside initialize(), "micro" resumes in the microtask queue.
setPlaying(w, shouldPlay) ==
  IF w.playing = shouldPlay
  THEN IF shouldPlay THEN MapHosts(w, hostPlay) ELSE MapHosts(w, hostPause)
  ELSE LET w1 == [w EXCEPT !.playing = shouldPlay] IN
       IF shouldPlay
       THEN IF w1.audioInitialized \/ w1.isInitialized
            THEN [w1 EXCEPT !.pending = Append(w1.pending, "micro")]
            ELSE IF audioAvailable
                 THEN [w1 EXCEPT !.audioContext = TRUE,
                                 !.audioNow = 0,
                                 !.pending = Append(w1.pending, "timer")]
                 ELSE [w1 EXCEPT !.pending = Append(w1.pending, "micro")]
       ELSE MapHosts(stopAudio(w1), hostPause)

RemoveAt(seq, i) == SubSeq(seq, 1, i - 1) \o SubSeq(seq, i + 1, Len(seq))

\* a continuation that starts the visuals only when an audio context exists
resumeOnlyWithAudio(w, i) ==
  LET w1 == [w EXCEPT !.pending = RemoveAt(w.pending, i),
                      !.isInitialized =
                          IF w.pending[i] = "timer" THEN TRUE ELSE @,
                      !.audioInitialized = TRUE]
      w2 == IF Len(w1.hosts) > 0
            THEN LET currentBeat == w1.hosts[1].progress
                     delay == IF currentBeat <= 0 THEN playStartDelayMs ELSE 0
                 IN scheduleAndAnchor(w1, currentBeat, delay)
            ELSE w1
  IN IF w2.audioContext THEN MapHosts(w2, hostPlay) ELSE w2

\* the rest of setPlaying(true), after `await this.ensureAudioInitialized()`
resumeSetPlaying(w, i) ==
  LET w1 == [w EXCEPT !.pending = RemoveAt(w.pending, i),
                      !.isInitialized =
                          IF w.pending[i] = "timer" THEN TRUE ELSE @,
                      !.audioInitialized = TRUE]
      initialized == TRUE
      w2 == IF initialized /\ Len(w1.hosts) > 0
            THEN LET currentBeat == w1.hosts[1].progress
                     delay == IF currentBeat <= 0 THEN playStartDelayMs ELSE 0
                 IN scheduleAndAnchor(w1, currentBeat, delay)
            ELSE w1
  IN MapHosts(w2, hostPlay)

\* tick, audio path: audioStartBeat + elapsedSeconds * MS_PER_SECOND / msPerBeat
audioClockBeatFrozen(w) == w.audioStartBeat
audioClockBeat(w) ==
  LET audioTime == getCurrentTime(w)
      elapsed == audioTime - w.audioStartTime
      elapsedBeats == (elapsed * BeatUnit) \div w.msPerBeat
  IN w.audioStartBeat + elapsedBeats

\* host tick(now), for host i of w
tick(w, i) ==
  LET h == w.hosts[i]
      T == h.totalBeats * BeatUnit
      put(ww, hh) == [ww EXCEPT !.hosts[i] = hh]
  IN
  IF ~h.playing \/ h.reduced \/ h.scrubbing THEN w
  ELSE IF w.msPerBeat <= 0 THEN w
  ELSE IF w.audioInitialized /\ w.audioStartTime # NULL
          /\ getCurrentTime(w) # NULL
  THEN \* beat from the audio clock
       LET beat0 == audioClockBeat(w)
           crossing == h.totalBeats > 0 /\ beat0 >= T /\ ~h.hasLooped
           h1 == IF crossing THEN [h EXCEPT !.hasLooped = TRUE]
                 ELSE IF h.totalBeats > 0 /\ beat0 < T /\ h.hasLooped
                      THEN [h EXCEPT !.hasLooped = FALSE]
                      ELSE h
           w1 == IF crossing /\ w.playing
                 THEN scheduleAndAnchor(w, 0, 0) ELSE w
           beat1 == IF h.totalBeats > 0 /\ beat0 >= T
                    THEN JsMod(beat0, T) ELSE beat0
           beat2 == IF h.totalBeats > 0 /\ beat1 < 0 THEN beat1 + T ELSE beat1
       IN put(w1, setBeat(h1, beat2, TRUE, "tick"))
  ELSE \* fallback: beat from performance.now()
       LET h1 == IF h.playStartTime = 0
                 THEN [h EXCEPT !.playStartTime = now,
                                !.playStartBeat = h.progress]
                 ELSE h
       IN IF now < h1.playStartTime
          THEN put(w, setBeat(h1, h1.playStartBeat, TRUE, "tick"))
          ELSE LET elapsed == now - h1.playStartTime
                   elapsedBeats == (elapsed * BeatUnit) \div w.msPerBeat
                   beat0 == h1.playStartBeat + elapsedBeats
                   beat1 == IF h.totalBeats > 0 THEN JsMod(beat0, T) ELSE beat0
                   beat2 == IF h.totalBeats > 0 /\ beat1 < 0
                            THEN beat1 + T ELSE beat1
               IN put(w, setBeat(h1, beat2, TRUE, "tick"))

\* ensureTick's step: this.state.hosts.forEach((host) => host.tick(now))
RECURSIVE tickFrom(_, _)
tickFrom(w, i) ==
  IF i > Len(w.hosts) THEN w ELSE tickFrom(tick(w, i), i + 1)

\* `if (playing && hosts.length > 0) { reschedule from hosts[0].progress }`
rescheduleNever(w) == w
rescheduleIfPlaying(w) ==
  IF w.playing /\ Len(w.hosts) > 0
  THEN scheduleAndAnchor(w, w.hosts[1].progress, 0)
  ELSE w

\* PartiturePlayer.handleTempoChange(newTempo)
handleTempoChange(w, t) ==
  IF ~TempoAccepted(t) THEN w
  ELSE IF t.val = w.tempo THEN w
  ELSE LET w1 == [w EXCEPT !.tempo = t.val,
                           !.msPerBeat = (60 * 1000) \div t.val]
       IN rescheduleIfPlaying(MapHosts(w1, onTempoChange))

\* PartiturePlayer.handleSeek(detail)
handleSeekRelative(w, detail) ==
  LET seekHost(h) == setBeat(h, h.progress + detail.val, TRUE, "set") IN
  rescheduleIfPlaying(MapHosts(w, seekHost))
handleSeek(w, detail) ==
  LET seekHost(h) == hostHandleSeek(h, detail) IN
  rescheduleIfPlaying(MapHosts(w, seekHost))

\* PartiturePlayer.ensureTick
ensureTick(w) == IF w.rafId THEN w ELSE [w EXCEPT !.rafId = TRUE]

\* PartiturePlayer.rebuildHosts, dom being the .staff-host surfaces found
destroyHosts(w) == MapHosts(w, destroy)
rebuildHosts(w, dom) ==
  LET created == [i \in 1..Len(dom) |-> createHost(dom[i])]
      w0 == destroyHosts(w)
      w1 == [w0 EXCEPT !.hosts = created]
      w2 == IF w1.playing THEN MapHosts(w1, hostPlay)
            ELSE MapHosts(w1, hostPause)
  IN ensureTick(w2)

\* onPointerDown (primary pointer) on host i at clientX x
onPointerDown(w, i, x) ==
  LET w1 == [w EXCEPT !.hosts[i].scrubbing = TRUE,
                      !.hosts[i].resumeAfterScrub = w.playing]
      w2 == setPlaying(w1, FALSE)
  IN [w2 EXCEPT !.hosts[i].scrubStartX = x,
                !.hosts[i].scrubStartBeat = w2.hosts[i].progress]

\* onPointerMove on host i at clientX x
onPointerMove(w, i, x) ==
  LET h == w.hosts[i] IN
  IF ~h.scrubbing THEN w
  ELSE LET deltaPx == x - h.scrubStartX
           beatsDelta == IF h.spacing # 0
                         THEN (deltaPx * BeatUnit) \div h.spacing ELSE 0
       IN [w EXCEPT !.hosts[i] =
                      setBeat(h, h.scrubStartBeat - beatsDelta, TRUE, "set")]

\* finishScrub, reached from onPointerUp / onPointerCancel when scrubbing
finishScrub(w, i) ==
  LET w1 == [w EXCEPT !.hosts[i].scrubbing = FALSE] IN
  IF w1.hosts[i].resumeAfterScrub THEN setPlaying(w1, TRUE) ELSE w1

\* onWheel with shiftKey held
onWheelSeeks(w, i, deltaY) ==
  IF w.hosts[i].spacing <= 0 THEN w
  ELSE handleSeek(w, Detail("deltaBeat",
                            (deltaY * BeatUnit) \div w.hosts[i].spacing))
onWheel(w, i, deltaY) ==
  LET h == w.hosts[i] IN
  IF h.spacing <= 0 THEN w
  ELSE [w EXCEPT !.hosts[i] =
          setBeat(h, h.progress + (deltaY * BeatUnit) \div h.spacing,
                  TRUE, "set")]

\* ------------------------------------------- timeline (audio-helpers.ts)
\* areNotesEquivalent(note1, note2, staff1, staff2)
areNotesEquivalentAnyStaff(note1, note2, staff1, staff2) ==
  /\ note1.pitch # NoPitch /\ note2.pitch # NoPitch
  /\ note1.pitch.step = note2.pitch.step
  /\ note1.pitch.octave = note2.pitch.octave
areNotesEquivalent(note1, note2, staff1, staff2) ==
  LET alterOr0(n) == IF n.pitch.alter = NoAlter THEN 0 ELSE n.pitch.alter IN
  IF note1.pitch = NoPitch \/ note2.pitch = NoPitch THEN FALSE
  ELSE /\ note1.pitch.step = note2.pitch.step
       /\ note1.pitch.octave = note2.pitch.octave
       /\ alterOr0(note1) = alterOr0(note2)
       /\ staff1 = staff2
       /\ note1.voice = note2.voice

\* note.tie === 'start' || note.notations?.tied?.type === 'start'
hasTieStartInTieOnly(note) == note.tie = "start"
hasTieStart(note) == note.tie = "start" \/ note.tied = "start"
\* nextNote.tie === 'stop' || nextNote.notations?.tied?.type === 'stop'
hasTieStop(note) == note.tie = "stop" \/ note.tied = "stop"

\* measure.attributes?.time.beats || 4
declaredBeatsOrOne(measure) ==
  IF measure.attributes = NoAttributes \/ measure.attributes.time.beats = 0
  THEN 1
  ELSE measure.attributes.time.beats
declaredBeats(measure) ==
  IF measure.attributes = NoAttributes \/ measure.attributes.time.beats = 0
  THEN 4
  ELSE measure.attributes.time.beats

\* the currentBeat of a note, from its staff's cursor `beat` and the staff's
\* previous note (<<>> for the staff's first note of the measure)
startBeatOfAdvancingChords(beat, lastNote, note) ==
  IF lastNote = <<>> THEN 1
  ELSE beat + (IF lastNote[1].duration = 0 THEN 1 ELSE lastNote[1].duration)
startBeatOfIgnoringRests(beat, lastNote, note) ==
  IF lastNote = <<>> \/ note.isChord
  THEN IF beat = 0 THEN 1 ELSE beat
  ELSE IF beat = 0 THEN 1
       ELSE IF lastNote[1].pitch = NoPitch THEN beat
       ELSE beat + (IF lastNote[1].duration = 0 THEN 1
                    ELSE lastNote[1].duration)
startBeatOf(beat, lastNote, note) ==
  IF lastNote = <<>> \/ note.isChord
  THEN IF beat = 0 THEN 1 ELSE beat
  ELSE IF beat = 0 THEN 1
       ELSE beat + (IF lastNote[1].duration = 0 THEN 1
                    ELSE lastNote[1].duration)

\* first pass, the inner measure.notes.forEach from note n on: currentBeats
\* and lastNotes are the per-staff maps (lastNotes[staff] is <<>> before the
\* staff's first note)
\* `note.staff || 1`
staffOfOneCursor(note) == 1
staffOf(note) == IF note.staff = 0 THEN 1 ELSE note.staff

RECURSIVE placeNotes(_, _, _, _, _, _)
placeNotes(notes, n, currentBeats, lastNotes, measureStartBeat, measureIndex) ==
  IF n > Len(notes) THEN <<>>
  ELSE
    LET note == notes[n]
        staff == staffOf(note)
        beat == currentBeats[staff]
        lastNote == lastNotes[staff]
        currentBeat == startBeatOf(beat, lastNote, note)
    IN << [note |-> note, beat |-> currentBeat + measureStartBeat - 1,
           staff |-> staff, measureIndex |-> measureIndex] >>
       \o placeNotes(notes, n + 1,
                     [currentBeats EXCEPT ![staff] = currentBeat],
                     [lastNotes EXCEPT ![staff] = << note >>],
                     measureStartBeat, measureIndex)

\* first pass, part.measures.forEach from measure m on (measureIndex m - 1):
\* the notes collected and the value totalBeatsSoFar ends with
RECURSIVE collectNotes(_, _, _)
collectNotes(partMeasures, m, totalBeatsSoFar) ==
  IF m > Len(partMeasures)
  THEN [notes |-> <<>>, totalBeatsSoFar |-> totalBeatsSoFar]
  ELSE LET rest == collectNotes(partMeasures, m + 1,
                     totalBeatsSoFar + declaredBeats(partMeasures[m]))
       IN [notes |-> placeNotes(partMeasures[m].notes, 1, [st \in {1, 2} |-> 0],
                                [st \in {1, 2} |-> <<>>], totalBeatsSoFar,
                                m - 1)
                     \o rest.notes,
           totalBeatsSoFar |-> rest.totalBeatsSoFar]

\* second pass, the inner `for (j = i + 1; ...)` from j on: the duration
\* accumulated for note i and the indices folded into it
RECURSIVE tieSearch(_, _, _, _, _)
tieSearch(all, i, j, duration, skipIndices) ==
  IF j > Len(all) THEN [duration |-> duration, skipIndices |-> skipIndices]
  ELSE
    LET nextNote == all[j].note IN
    IF nextNote.pitch = NoPitch
    THEN tieSearch(all, i, j + 1, duration, skipIndices)
    ELSE IF areNotesEquivalent(all[i].note, nextNote,
                               all[i].staff, all[j].staff)
            /\ hasTieStop(nextNote)
         THEN IF ~hasTieStart(nextNote)
              THEN [duration |-> duration + nextNote.duration,
                    skipIndices |-> skipIndices \cup {j}]
              ELSE tieSearch(all, i, j + 1, duration + nextNote.duration,
                             skipIndices \cup {j})
         ELSE tieSearch(all, i, j + 1, duration, skipIndices)

\* second pass, the outer `for (i = 0; ...)` from i on.  Of an AudioNote the
\* pitch, the merged duration and the beat are kept; note.type and the slur
\* flags are copied through by the code and play no part here.  `index` is
\* not a field of AudioNote: it records the allNotes position i the entry was
\* pushed for.
RECURSIVE mergeTies(_, _, _)
mergeTies(all, i, skipIndices) ==
  IF i > Len(all) THEN <<>>
  ELSE IF i \in skipIndices THEN mergeTies(all, i + 1, skipIndices)
  ELSE IF all[i].note.pitch = NoPitch THEN mergeTies(all, i + 1, skipIndices)
  ELSE
    LET note == all[i].note
        r == IF hasTieStart(note)
             THEN tieSearch(all, i, i + 1, note.duration, skipIndices)
             ELSE [duration |-> note.duration, skipIndices |-> skipIndices]
    IN << [note |-> [pitch |-> note.pitch, duration |-> r.duration],
           beat |-> all[i].beat, index |-> i] >>
       \o mergeTies(all, i + 1, r.skipIndices)

\* reading a property of undefined throws a TypeError: `firstMeasure` of a
\* part without measures (line 55), `attributes.time` of attributes without a
\* time signature (line 68)
throwsTypeError(p) ==
  \/ Len(p.measures) = 0
  \/ \E m \in 1..Len(p.measures) :
       /\ p.measures[m].attributes # NoAttributes
       /\ p.measures[m].attributes.time = NoTime

\* prepareNotesForAudio(part): whether it threw, the first-pass list and the
\* AudioNote[] returned
prepareNotesForAudio(p) ==
  IF throwsTypeError(p)
  THEN [threw |-> TRUE, allNotes |-> <<>>, audioNotes |-> <<>>]
  ELSE LET all == collectNotes(p.measures, 1, 1).notes IN
       [threw |-> FALSE, allNotes |-> all,
        audioNotes |-> mergeTies(all, 1, {})]

\* ------------------------------------------- notation (notation-parser.ts)
\* the number of trailing "-" of a string: the length of the /-+$/ match
RECURSIVE trailingDashes(_)
trailingDashes(str) ==
  IF str = <<>> \/ str[Len(str)] # "-" THEN 0
  ELSE 1 + trailingDashes(SubSeq(str, 1, Len(str) - 1))

\* parseDuration(part): 1 + number of trailing dashes
parseDuration(str) == trailingDashes(str) + 1

\* p.replace(/-+$/, "")
stripDashes(str) == SubSeq(str, 1, Len(str) - trailingDashes(str))

endsWith(str, suffix) ==
  /\ Len(str) >= Len(suffix)
  /\ SubSeq(str, Len(str) - Len(suffix) + 1, Len(str)) = suffix

\* line.match(/\[[^\]]+\]|[^\s]+/g) from position p on: at each position a
\* bracketed group up to the first "]" (with something inside) is tried
\* first, then a run of non-blank characters
RECURSIVE matchParts(_, _)
matchParts(str, p) ==
  IF p > Len(str) THEN <<>>
  ELSE
    LET closers == { q \in (p + 1)..Len(str) : str[q] = "]" }
        close == IF closers = {} THEN 0
                 ELSE CHOOSE q \in closers : \A r \in closers : q <= r
        blanks == { q \in p..Len(str) : str[q] = " " }
        runEnd == IF blanks = {} THEN Len(str)
                  ELSE (CHOOSE q \in blanks : \A r \in blanks : q <= r) - 1
    IN IF str[p] = "[" /\ close > p + 1
       THEN << SubSeq(str, p, close) >> \o matchParts(str, close + 1)
       ELSE IF str[p] = " " THEN matchParts(str, p + 1)
       ELSE << SubSeq(str, p, runEnd) >> \o matchParts(str, runEnd + 1)

\* inner.split(/\s+/).filter(Boolean) of a group's inside
RECURSIVE splitWords(_, _)
splitWords(str, p) ==
  IF p > Len(str) THEN <<>>
  ELSE IF str[p] = " " THEN splitWords(str, p + 1)
  ELSE LET blanks == { q \in p..Len(str) : str[q] = " " }
           runEnd == IF blanks = {} THEN Len(str)
                     ELSE (CHOOSE q \in blanks : \A r \in blanks : q <= r) - 1
       IN << SubSeq(str, p, runEnd) >> \o splitWords(str, runEnd + 1)

Token(type, value, duration) ==
  [type |-> type, value |-> value, duration |-> duration]
noteToken(str) == Token("note", stripDashes(str), parseDuration(str))

SeqMax(ds) ==
  IF ds = <<>> THEN 0
  ELSE CHOOSE d \in { ds[i] : i \in 1..Len(ds) } :
         \A i \in 1..Len(ds) : ds[i] <= d

\* the beat slots one part of the line fills: its tokens in the first slot,
\* null placeholders in the rest.  A part ending in `-chord` has no trailing
\* dashes, so the regular expression's second group is empty and the
\* duration is 1.  An empty group (Math.max() of nothing) fills no slot.
NullBeat == [null |-> TRUE, tokens |-> <<>>]
Beat(tokens) == [null |-> FALSE, tokens |-> tokens]
partBeats(str) ==
  LET placeholders(n) == [i \in 1..(n - 1) |-> NullBeat] IN
  IF str = << "." >>
  THEN << Beat(<< Token("rest", <<>>, 1) >>) >>
  ELSE IF str[1] = "[" /\ str[Len(str)] = "]"
  THEN LET innerParts == splitWords(SubSeq(str, 2, Len(str) - 1), 1)
           noteTokens == [i \in 1..Len(innerParts) |->
                            noteToken(innerParts[i])]
           maxDuration == SeqMax([i \in 1..Len(noteTokens) |->
                                    noteTokens[i].duration])
       IN IF maxDuration = 0 THEN <<>>
          ELSE << Beat(noteTokens) >> \o placeholders(maxDuration)
  ELSE IF endsWith(str, << "-", "K" >>)
  THEN << Beat(<< Token("chord", str, 1) >>) >>
  ELSE << Beat(<< noteToken(str) >>) >>
          \o placeholders(parseDuration(str))

RECURSIVE allBeats(_)
allBeats(parts) ==
  IF parts = <<>> THEN <<>>
  ELSE partBeats(Head(parts)) \o allBeats(Tail(parts))

\* the measures: a measure is pushed whenever beatsPerMeasure beats are
\* in it; the last one is padded with rests and pushed
RECURSIVE cutMeasures(_, _)
cutMeasures(beats, beatsPerMeasure) ==
  IF Len(beats) >= beatsPerMeasure
  THEN << SubSeq(beats, 1, beatsPerMeasure) >>
       \o cutMeasures(SubSeq(beats, beatsPerMeasure + 1, Len(beats)),
                      beatsPerMeasure)
  ELSE << beats \o [i \in 1..(beatsPerMeasure - Len(beats)) |->
                     Beat(<< Token("rest", <<>>, 1) >>)] >>

\* parseNotation(line, beatsPerMeasure = 4)
parseNotation(str, beatsPerMeasure) ==
  cutMeasures(allBeats(matchParts(str, 1)), beatsPerMeasure)

\* ----------------------------------------------------------------- actions
Commit(w) ==
  \E v \in {w} :
    /\ tempo' = v.tempo
    /\ msPerBeat' = v.msPerBeat
    /\ hosts' = v.hosts
    /\ playing' = v.playing
    /\ rafId' = v.rafId
    /\ audioScheduled' = v.audioScheduled
    /\ audioStartTime' = v.audioStartTime
    /\ audioStartBeat' = v.audioStartBeat
    /\ audioInitialized' = v.audioInitialized
    /\ audioContext' = v.audioContext
    /\ isInitialized' = v.isInitialized
    /\ scheduledNotes' = v.scheduledNotes
    /\ pending' = v.pending
    /\ audioNow' = v.audioNow
    /\ calls' = v.calls
    /\ UNCHANGED << now, prefersReducedMotion, audioAvailable >>
    /\ UNCHANGED << timelineVars, notationVars >>

\* Microtasks run before the browser delivers any event, timer or frame;
\* only the caller's own synchronous code can run before them.
NoMicrotask == \A k \in 1..Len(pending) : pending[k] # "micro"

EngineStart ==
  /\ tempo = defaultTempo
  /\ msPerBeat = (60 * 1000) \div defaultTempo
  /\ hosts = <<>>
  /\ playing = FALSE
  /\ rafId = FALSE
  /\ audioScheduled = FALSE
  /\ audioStartTime = NULL
  /\ audioStartBeat = 0
  /\ audioInitialized = FALSE
  /\ prefersReducedMotion \in BOOLEAN
  /\ audioAvailable \in BOOLEAN
  /\ audioContext = FALSE
  /\ isInitialized = FALSE
  /\ scheduledNotes = {}
  /\ pending = <<>>
  /\ now = 0
  /\ audioNow = 0
  /\ calls = <<>>

\* no timeline derivation in progress
TimelineIdle ==
  /\ part = [measures |-> <<>>]
  /\ returned = FALSE
  /\ allNotes = <<>>
  /\ audioNotes = [threw |-> FALSE, notes |-> <<>>]

\* no notation line being parsed
NotationIdle ==
  /\ notation = <<>>
  /\ line = <<>>
  /\ measures = <<>>

Init == EngineStart /\ TimelineIdle /\ NotationIdle

\* play() / piano:play-toggle with a true detail
Play ==
  /\ playing \/ Len(pending) < MaxPending
  /\ Commit(setPlaying(World, TRUE))

\* pause() / piano:play-toggle with a false detail
Pause == Commit(setPlaying(World, FALSE))

\* visibilitychange with document.hidden
Hide ==
  /\ NoMicrotask
  /\ Commit(setPlaying(World, FALSE))

\* a suspended setPlaying(true) resumes: microtasks first and in order,
\* initialize()'s timers in order
Resume ==
  \E i \in 1..Len(pending) :
    /\ \A k \in 1..(i - 1) : pending[k] # pending[i]
    /\ pending[i] = "timer" => NoMicrotask
    /\ Commit(resumeSetPlaying(World, i))

\* setTempo(bpm) / piano:tempo-change
SetTempo ==
  \E t \in TempoInputs : Commit(handleTempoChange(World, t))

\* seek(detail) / piano:seek
Seek ==
  \E d \in SeekDetails : Commit(handleSeek(World, d))

\* rebuild()
Rebuild ==
  \E dom \in DomConfigs : Commit(rebuildHosts(World, dom))

RebuildOne ==
  \E dom \in OneHost : Commit(rebuildHosts(World, dom))

\* the debounced resize handler: hosts.forEach((host) => host.remeasure())
Resize ==
  /\ NoMicrotask
  /\ hosts # <<>>
  /\ \E lay \in Layouts :
       LET measure(h) == remeasure(h, lay) IN
       Commit(MapHosts(World, measure))

\* one animation frame: the step callback of ensureTick
Frame ==
  /\ NoMicrotask
  /\ rafId
  /\ Commit(tickFrom(World, 1))

\* one firing of host i's setInterval timer
IntervalStep ==
  /\ NoMicrotask
  /\ \E i \in HostIds :
       /\ hosts[i].interval
       /\ Commit([World EXCEPT !.hosts[i] = intervalStep(hosts[i])])

PointerDown ==
  /\ NoMicrotask
  /\ \E i \in HostIds, x \in PointerDownXs :
       Commit(onPointerDown(World, i, x))

PointerMove ==
  /\ NoMicrotask
  /\ \E i \in HostIds, x \in PointerXs :
       /\ hosts[i].scrubbing
       /\ Commit(onPointerMove(World, i, x))

\* pointerup and pointercancel run the same handler body
PointerUp ==
  /\ NoMicrotask
  /\ \E i \in HostIds :
       /\ hosts[i].scrubbing
       /\ hosts[i].resumeAfterScrub => (playing \/ Len(pending) < MaxPending)
       /\ Commit(finishScrub(World, i))

Wheel ==
  /\ NoMicrotask
  /\ \E i \in HostIds, deltaY \in WheelDeltas :
       Commit(onWheel(World, i, deltaY))

\* the user scrolls host i to x, then the scroll listener runs
Scroll ==
  /\ NoMicrotask
  /\ \E i \in HostIds, x \in ScrollXs :
       /\ x <= hosts[i].maxScroll
       /\ Commit([World EXCEPT !.hosts[i] =
                     handleScroll([hosts[i] EXCEPT !.scrollLeft = x])])

\* the requestAnimationFrame callback of setScroll
ScrollSettled ==
  /\ NoMicrotask
  /\ \E i \in HostIds :
       /\ hosts[i].ignoreScroll
       /\ Commit([World EXCEPT !.hosts[i].ignoreScroll = FALSE])

\* both clocks advance; the audio clock runs once a context exists
Advance ==
  /\ NoMicrotask
  /\ now < MaxTicks * TimeStep
  /\ now' = now + TimeStep
  /\ audioNow' = IF audioContext THEN audioNow + TimeStep ELSE audioNow
  /\ calls' = <<>>
  /\ UNCHANGED << tempo, msPerBeat, hosts, playing, rafId, audioScheduled,
                  audioStartTime, audioStartBeat, audioInitialized,
                  prefersReducedMotion, audioAvailable, audioContext,
                  isInitialized,
                  scheduledNotes, pending >>
  /\ UNCHANGED << timelineVars, notationVars >>

\* The engine: the public operations, the clocks, frames and timers.
Next ==
  \/ Play \/ Pause \/ Hide \/ Resume \/ SetTempo \/ Seek \/ Rebuild
  \/ Frame \/ IntervalStep \/ Advance

Spec == Init /\ [][Next]_vars

\* The engine over at most one surface.
NextOne ==
  \/ Play \/ Pause \/ Hide \/ Resume \/ SetTempo \/ Seek \/ RebuildOne
  \/ Frame \/ IntervalStep \/ Advance

SpecOne == Init /\ [][NextOne]_vars

\* One surface under user input: scrubbing (which pauses and resumes the
\* engine), wheel and scroll on top of playback at a fixed tempo.
NextInput ==
  \/ Play \/ Resume \/ Seek \/ RebuildOne \/ Frame \/ IntervalStep
  \/ PointerDown \/ PointerMove \/ PointerUp \/ Wheel \/ Scroll
  \/ ScrollSettled \/ Advance

SpecInput == Init /\ [][NextInput]_vars

\* One surface whose layout changes under playback at a fixed tempo.
NextLayout ==
  \/ Play \/ Pause \/ Resume \/ RebuildOne \/ Resize \/ Frame \/ IntervalStep
  \/ Advance

SpecLayout == Init /\ [][NextLayout]_vars

\* The timeline deriver applied to one notation input.
InitTimeline ==
  /\ EngineStart
  /\ ~prefersReducedMotion
  /\ audioAvailable
  /\ \/ part \in BrokenParts
     \/ \E a \in MeasureAttributes, l \in NoteLists :
          part = OneMeasure(a, l)
     \/ \E a \in MeasureAttributes, b \in MeasureAttributes,
           l \in NoteLists, k \in 0..MaxNotes :
          /\ k <= Len(l)
          /\ part = TwoMeasures(a, b, l, k)
  /\ returned = FALSE
  /\ allNotes = <<>>
  /\ audioNotes = [threw |-> FALSE, notes |-> <<>>]
  /\ NotationIdle

\* the call prepareNotesForAudio(part)
Prepare ==
  /\ ~returned
  /\ returned' = TRUE
  /\ LET r == prepareNotesForAudio(part) IN
     /\ allNotes' = r.allNotes
     /\ audioNotes' = [threw |-> r.threw, notes |-> r.audioNotes]
  /\ UNCHANGED << part, engineVars, notationVars >>

NextTimeline == Prepare

SpecTimeline == InitTimeline /\ [][NextTimeline]_vars

\* The legacy parser applied to one written notation line.
InitNotation ==
  /\ EngineStart
  /\ ~prefersReducedMotion
  /\ audioAvailable
  /\ TimelineIdle
  /\ notation \in Notations
  /\ line = WriteLine(notation)
  /\ measures = <<>>

\* the call parseNotation(line), as parseSong makes it
Parse ==
  /\ measures = <<>>
  /\ measures' = parseNotation(line, 4)
  /\ UNCHANGED << notation, line, engineVars, timelineVars >>

NextNotation == Parse

SpecNotation == InitNotation /\ [][NextNotation]_vars

\* ------------------------------------------------------------------ claims
\* a step in which a suspended setPlaying(true) resumes and runs to its end
Resumed == Len(pending') < Len(pending)

C2_NoVisualStartBeforeInit ==
  [][ ( /\ pending = << "timer" >>
        /\ playing
        /\ pending' = pending
        /\ \A i \in HostIds : ~hosts[i].playing )
      => \A i \in 1..Len(hosts') : ~hosts'[i].playing ]_vars

\* C3: when the audio context cannot be created, the play() that resumes
\* from the initialization step with hosts present sees it fail: the engine
\* does not record audio as initialized and the call turns no host's
\* playing flag on.
C3_FailedInitKeepsHostsStopped ==
  [][ (~audioAvailable /\ Resumed /\ hosts # <<>>)
      => /\ ~audioInitialized'
         /\ \A i \in 1..Len(hosts') : hosts'[i].playing => hosts[i].playing
    ]_vars

\* C4: a step that takes a playing engine with no suspended play() to the
\* stopped state (pause(), page hide) leaves no scheduled note, clears the
\* audio anchor time, leaves every host not playing and keeps every host's
\* progress.
C4_PauseStopsAudioAndHosts ==
  [][ (playing /\ pending = <<>> /\ ~playing')
      => /\ scheduledNotes' = {}
         /\ audioStartTime' = NULL
         /\ Len(hosts') = Len(hosts)
         /\ \A i \in HostIds :
              /\ ~hosts'[i].playing
              /\ hosts'[i].progress = hosts[i].progress ]_vars

\* a paused engine whose host had run past the end of the score: audio had
\* been scheduled and anchored, and the host stopped at a non-zero beat
C4_Witness ==
  /\ ~playing
  /\ pending = <<>>
  /\ isInitialized
  /\ scheduledNotes = {}
  /\ audioStartTime = NULL
  /\ \E i \in HostIds :
       hosts[i].hasLooped /\ ~hosts[i].playing /\ hosts[i].progress > 0

\* C5: play() on an engine that is already playing (whose audio context
\* can be created) changes neither the scheduled audio nor the audio anchor
\* nor any host's progress, playStartBeat or playStartTime.
C5_PlayWhilePlayingIsNoOp ==
  [][ (playing /\ audioAvailable /\ Commit(setPlaying(World, TRUE)))
      => /\ UNCHANGED << scheduledNotes, audioScheduled, audioStartTime,
                         audioStartBeat >>
         /\ \A i \in HostIds :
              /\ hosts'[i].progress = hosts[i].progress
              /\ hosts'[i].playStartBeat = hosts[i].playStartBeat
              /\ hosts'[i].playStartTime = hosts[i].playStartTime ]_vars

\* C6: when a play() issued on a stopped engine completes with the audio
\* scheduler initialized and at least one host, audio has been scheduled
\* from hosts[0].progress with a delay of playStartDelayMs if that beat is 0
\* and of zero otherwise, the anchor beat is that beat, the anchor time is
\* the instant the scheduling call returned, and every host is playing.
C6_PlayCompletesAnchored ==
  [][ (Resumed /\ isInitialized' /\ hosts # <<>>)
      => LET currentBeat == hosts[1].progress
             delay == IF currentBeat = 0 THEN playStartDelayMs ELSE 0
         IN /\ calls' = << Call(currentBeat, delay, audioNow + delay) >>
            /\ audioScheduled'
            /\ scheduledNotes' =
                 scheduleNotes([World EXCEPT !.isInitialized = TRUE,
                                             !.scheduledNotes = {}],
                               currentBeat).scheduledNotes
            /\ audioStartBeat' = currentBeat
            /\ audioStartTime' = calls'[1].ret
            /\ \A i \in 1..Len(hosts') : hosts'[i].playing ]_vars

\* play() has completed from beat 0: scheduled with the start delay,
\* anchored at the returned instant, hosts running
C6_Witness ==
  /\ playing
  /\ hosts # <<>>
  /\ calls = << Call(0, playStartDelayMs, audioNow + playStartDelayMs) >>
  /\ audioStartTime = audioNow + playStartDelayMs
  /\ audioStartBeat = 0
  /\ scheduledNotes # {}
  /\ \A i \in HostIds : hosts[i].playing

\* C7: setTempo with a non-finite or non-positive value changes neither
\* tempo, msPerBeat, the audio anchor, the scheduled audio nor any host; and
\* in every reachable state tempo > 0 and msPerBeat = 60000 / tempo.
C7_InvalidTempoIgnored ==
  /\ [](tempo > 0 /\ msPerBeat * tempo = 60 * MS_PER_SECOND)
  /\ [][ \A t \in TempoInputs :
           ((t.kind # "num" \/ t.val <= 0)
              /\ Commit(handleTempoChange(World, t)))
           => UNCHANGED << tempo, msPerBeat, audioStartTime, audioStartBeat,
                           audioScheduled, scheduledNotes, hosts >> ]_vars

\* the state an ignored setTempo returns to on a playing engine whose tempo
\* an earlier, accepted call had changed: audio still scheduled and anchored
C7_Witness ==
  /\ playing
  /\ tempo = 60
  /\ msPerBeat = 1000
  /\ calls = <<>>
  /\ audioStartTime # NULL
  /\ scheduledNotes # {}
  /\ \E i \in HostIds : hosts[i].playing

\* The beat the anchor pair implies at the current reading of the audio
\* clock, wrapped into the first host's range as the frame tick wraps it.
currentBeat ==
  LET T == hosts[1].totalBeats * BeatUnit
      beat == audioStartBeat
                + ((audioNow - audioStartTime) * BeatUnit) \div msPerBeat
  IN IF T > 0 /\ beat >= T THEN JsMod(beat, T) ELSE beat

\* C8: an accepted setTempo on a playing engine whose anchor instant has
\* been reached leaves the beat implied by the anchor pair at the current
\* clock reading unchanged, however much clock time has passed since the
\* last frame tick.
C8_TempoChangeKeepsCurrentBeat ==
  [][ ( /\ playing
        /\ pending = <<>>
        /\ isInitialized
        /\ audioStartTime # NULL
        /\ audioStartTime <= audioNow
        /\ hosts # <<>>
        /\ tempo' # tempo )
      => (audioStartTime' # NULL /\ currentBeat' = currentBeat) ]_vars

\* C9: an accepted setTempo changes no host's progress, playing or stopped;
\* going from 60 to 120 takes msPerBeat from 1000 to 500.
C9_TempoChangeKeepsProgress ==
  [][ (tempo' # tempo)
      => /\ Len(hosts') = Len(hosts)
         /\ \A i \in HostIds : hosts'[i].progress = hosts[i].progress
         /\ (tempo = 60 /\ tempo' = 120)
              => (msPerBeat = 1000 /\ msPerBeat' = 500) ]_vars

\* setTempo(60) was accepted while a host was running away from beat 0
C9_Witness ==
  /\ tempo = 60
  /\ msPerBeat = 1000
  /\ \E i \in HostIds :
       hosts[i].playing /\ hosts[i].progress > 0 /\ hosts[i].playStartTime = now
  /\ \E i \in HostIds : ~hosts[i].reduced /\ hosts[i].progress > 0

\* The call has, on return, replaced the scheduled audio by a schedule from
\* the first host's beat at the audio clock's present reading, without
\* delay, anchored there, and has not suspended.
RescheduledNow ==
  LET beat == hosts'[1].progress IN
  /\ calls' = << Call(beat, 0, audioNow) >>
  /\ scheduledNotes' =
       scheduleNotes([World EXCEPT !.tempo = tempo', !.scheduledNotes = {}],
                     beat).scheduledNotes
  /\ audioStartTime' = audioNow
  /\ audioStartBeat' = beat
  /\ pending' = pending

seekTarget(h, detail) ==
  CASE detail.kind = "beat" -> detail.val
    [] detail.kind = "progress" ->
         (detail.val * h.totalBeats * BeatUnit) \div 1000
    [] detail.kind = "deltaBeat" -> h.progress + detail.val
    [] OTHER -> h.progress

\* In state w, reached by seek(detail), every host sits at its target held
\* within the host's range, and the hosts are as they were when the detail
\* is missing or empty.
SeekPlacedHosts(w, detail) ==
  /\ Len(w.hosts) = Len(hosts)
  /\ \A i \in HostIds :
       LET target == seekTarget(hosts[i], detail)
           T == hosts[i].totalBeats * BeatUnit
       IN w.hosts[i].progress =
            IF target < 0 THEN 0 ELSE IF target > T THEN T ELSE target
  /\ detail.kind \in {"none", "empty"} => w.hosts = hosts

anchorState(w) ==
  << w.audioStartTime, w.audioStartBeat,
     [i \in 1..Len(w.hosts) |->
        << w.hosts[i].progress, w.hosts[i].playStartBeat,
           w.hosts[i].playStartTime >>] >>

\* seek details naming the beat a host is at
CurrentBeats == { Detail("beat", hosts[i].progress) : i \in HostIds }

\* C12: from any reachable state, playing or stopped, seeking to the current
\* beat twice with no clock time in between leaves the anchor state (audio
\* anchor time and beat, each host's progress, playStartBeat and
\* playStartTime) as seeking to it once does.
C12_SeekIdempotent ==
  \A d \in CurrentBeats :
    \A once \in { handleSeek(World, d) } :
      \A twice \in { handleSeek(once, d) } :
        anchorState(twice) = anchorState(once)

\* a playing engine just sought past the end after the clock had moved: the
\* animated first host and the audio are anchored at the last beat, now
C12_Witness ==
  /\ playing
  /\ audioNow > 0
  /\ hosts # <<>>
  /\ ~hosts[1].reduced
  /\ hosts[1].playing
  /\ hosts[1].progress = hosts[1].totalBeats * BeatUnit
  /\ hosts[1].playStartBeat = hosts[1].progress
  /\ hosts[1].playStartTime = now
  /\ audioStartTime = audioNow
  /\ audioStartBeat = hosts[1].progress

\* host h is advanced by frame ticks
Ticking(h) == h.playing /\ ~h.reduced /\ ~h.scrubbing /\ h.totalBeats > 0

\* tick derives the beat from the audio clock
AudioClockPath ==
  audioInitialized /\ audioStartTime # NULL /\ getCurrentTime(World) # NULL

\* the beat the audio clock gives at this instant, before any wrapping
clockBeat ==
  audioStartBeat + ((audioNow - audioStartTime) * BeatUnit) \div msPerBeat

\* C13: in any reachable state of a playing engine in which the audio clock
\* puts a ticking host at or past its totalBeats, the frame that runs there
\* leaves every ticking host's beat in [0, totalBeats) and makes exactly one
\* audio reschedule, from beat 0 without delay, with the anchor rebased to
\* (audio clock now, beat 0).
C13_OneRescheduleByCrossing ==
  ( /\ playing
    /\ NoMicrotask
    /\ AudioClockPath
    /\ \E i \in HostIds :
         Ticking(hosts[i]) /\ clockBeat >= hosts[i].totalBeats * BeatUnit )
  => LET w == tickFrom(World, 1) IN
     /\ \A i \in HostIds :
          Ticking(hosts[i])
          => /\ 0 <= w.hosts[i].progress
             /\ w.hosts[i].progress < hosts[i].totalBeats * BeatUnit
     /\ w.calls = << Call(0, 0, audioNow) >>
     /\ w.audioStartTime = audioNow
     /\ w.audioStartBeat = 0

\* C14: pre-roll hold.  While the anchor reference instant is still ahead,
\* a frame leaves every ticking (playing, non-reduced) host at the frozen
\* start beat: the anchor beat when the beat is read from the audio clock,
\* the host's own start beat when it is read from the animation clock.
C14_PreRollHoldsStartBeat ==
  NoMicrotask =>
    LET w == tickFrom(World, 1) IN
    \A i \in HostIds :
      Ticking(hosts[i]) =>
        /\ (AudioClockPath /\ audioNow < audioStartTime)
             => w.hosts[i].progress = audioStartBeat
        /\ (~AudioClockPath /\ now < hosts[i].playStartTime)
             => w.hosts[i].progress = hosts[i].playStartBeat

\* C15: a scrub restores the engine's playing state.  A primary pointer-down
\* on a host records the playing state of that moment; every pointer event
\* that arrives while the host is scrubbing (a move, another primary
\* pointer-down) keeps that record; and the release of a scrub that nothing
\* but pointer events interrupted (the engine is still paused) leaves the
\* engine playing exactly if the record says it was.
C15_ScrubRestoresPlaying ==
  NoMicrotask =>
  \A i \in HostIds :
    LET h == hosts[i] IN
    /\ ~h.scrubbing =>
         \A x \in PointerDownXs :
           LET w == onPointerDown(World, i, x) IN
           /\ w.hosts[i].scrubbing
           /\ w.hosts[i].resumeAfterScrub = playing
           /\ finishScrub(w, i).playing = playing
    /\ (h.scrubbing /\ ~playing) =>
         /\ \A x \in PointerXs :
              onPointerMove(World, i, x).hosts[i].resumeAfterScrub
                = h.resumeAfterScrub
         /\ \A x \in PointerDownXs :
              onPointerDown(World, i, x).hosts[i].resumeAfterScrub
                = h.resumeAfterScrub
    /\ (h.scrubbing /\ ~playing) =>
         finishScrub(World, i).playing = h.resumeAfterScrub

\* C16: in every reachable state in which some host is scrubbing, global
\* playback is paused: the engine's playing flag is false, no audio is
\* scheduled and no host is playing.
C16_ScrubbingPausesPlayback ==
  (\E i \in HostIds : hosts[i].scrubbing) =>
    /\ ~playing
    /\ ~audioScheduled
    /\ scheduledNotes = {}
    /\ \A j \in HostIds : ~hosts[j].playing

\* C17: the recurring frame callback is registered only while some host is
\* playing; whenever no host is playing, no frame callback is registered.
C17_FrameCallbackOnlyWhilePlaying ==
  rafId => \E i \in HostIds : hosts[i].playing

\* C18: in every reachable state a host that is playing and has
\* totalBeats > 0 is advanced by something: it is non-reduced (frame ticks)
\* or its per-beat interval timer is running.
C18_PlayingHostIsAdvanced ==
  \A i \in HostIds :
    (hosts[i].playing /\ hosts[i].totalBeats > 0) =>
      (~hosts[i].reduced \/ hosts[i].interval)

\* C19: after rebuild() every host that existed before the call has been
\* destroyed (not playing, interval timer cleared, observer disconnected,
\* input handlers detached) and the host list holds exactly the hosts newly
\* created for the surfaces found, each with its playing flag equal to the
\* engine's playing flag.
C19_RebuildReplacesHosts ==
  /\ \A old \in { destroyHosts(World).hosts } :
       \A i \in HostIds :
         /\ ~old[i].playing
         /\ ~old[i].interval
         /\ ~old[i].observer
         /\ ~old[i].attached
  /\ \A dom \in DomConfigs :
       \A w \in { rebuildHosts(World, dom) } :
         /\ w.playing = playing
         /\ Len(w.hosts) = Len(dom)
         /\ \A j \in 1..Len(dom) :
              \A h \in { w.hosts[j] } :
                /\ h.attached
                /\ h.nbeats = dom[j].beats
                /\ h.progress = 0
                /\ h.playing = playing

\* rebuild() has replaced the hosts of a playing engine that was anchored
\* past beat 0: the new hosts start at beat 0 and play.
C19_Witness ==
  /\ playing
  /\ audioStartTime # NULL
  /\ audioStartBeat > 0
  /\ Len(hosts) = 2
  /\ \A i \in HostIds :
       /\ hosts[i].playing
       /\ ~hosts[i].reduced
       /\ hosts[i].progress = 0
       /\ hosts[i].playStartBeat = 0
       /\ hosts[i].attached

\* C20: after a scheduling call that returned the reference instant R, the
\* scheduled sounds are exactly the pitched events with start beat
\* b >= startBeat, each at R + (b - startBeat) * 60 / tempo; earlier events
\* and events without pitch are not scheduled.
C20_NotesScheduledFromReference ==
  (calls # <<>> /\ calls[Len(calls)].ret # NULL) =>
    LET c == calls[Len(calls)]
        secondsPerBeat == (60 * MS_PER_SECOND) \div tempo
    IN scheduledNotes =
         { [beat |-> notesForAudio[k].beat,
            at |-> c.ret + ((notesForAudio[k].beat - c.fromBeat)
                              * secondsPerBeat) \div BeatUnit] :
           k \in { j \in 1..Len(notesForAudio) :
                     /\ notesForAudio[j].beat >= c.fromBeat
                     /\ notesForAudio[j].pitch } }

\* initialize() calls that have created an audio context and master gain and
\* are waiting in their setTimeout: one audio environment each
contextsCreated ==
  Cardinality({ k \in 1..Len(pending) : pending[k] = "timer" })

\* C21: across any sequence of play() and pause() calls the audio
\* environment (audio context and master gain) is created at most once.
C21_AudioEnvironmentCreatedOnce == contextsCreated <= 1

\* the sum of the declared beat counts of the first k measures of the part,
\* 4 standing for a measure without a declared count
RECURSIVE sumOfBeatCounts(_)
sumOfBeatCounts(k) ==
  IF k = 0 THEN 0
  ELSE sumOfBeatCounts(k - 1)
       + (IF part.measures[k].attributes = NoAttributes THEN 4
          ELSE part.measures[k].attributes.time.beats)

\* the first-pass entries of the notes of staff st in the measure of index k
staffEntries(k, st) ==
  SelectSeq(allNotes, LAMBDA e : e.measureIndex = k /\ e.staff = st)

\* C22: the first note of any staff in measure k starts at beat 1 plus the
\* sum of the declared beat counts of measures 0..k-1, whatever notes the
\* measures hold, and the beat total after the last measure is the sum of
\* all declared beat counts.
C22_MeasureStartsAtSumOfBeatCounts ==
  (returned /\ ~audioNotes.threw) =>
    /\ \A k \in 0..(Len(part.measures) - 1), st \in {1, 2} :
         staffEntries(k, st) # <<>> =>
           staffEntries(k, st)[1].beat = 1 + sumOfBeatCounts(k)
    /\ collectNotes(part.measures, 1, 1).totalBeatsSoFar - 1
         = sumOfBeatCounts(Len(part.measures))

\* a second measure that starts after an empty three-beat measure, with
\* notes on both staves
C22_Witness ==
  /\ returned /\ ~audioNotes.threw
  /\ Len(part.measures) = 2
  /\ part.measures[1] = Measure(Attributes(3), <<>>)
  /\ staffEntries(1, 1) # <<>> /\ staffEntries(1, 2) # <<>>
  /\ staffEntries(1, 2)[1].beat = 4

\* first-pass entries i and j are notes of the same pitch, staff and voice
SameLine(i, j) ==
  /\ allNotes[i].note.pitch # NoPitch
  /\ allNotes[j].note.pitch # NoPitch
  /\ allNotes[i].note.pitch.step = allNotes[j].note.pitch.step
  /\ allNotes[i].note.pitch.octave = allNotes[j].note.pitch.octave
  /\ (allNotes[i].note.pitch.alter = 1) = (allNotes[j].note.pitch.alter = 1)
  /\ allNotes[i].staff = allNotes[j].staff
  /\ allNotes[i].note.voice = allNotes[j].note.voice

TieStartOnly(i) ==
  LET n == allNotes[i].note IN
  ("start" \in {n.tie, n.tied}) /\ ("stop" \notin {n.tie, n.tied})
TieStopOnly(i) ==
  LET n == allNotes[i].note IN
  ("stop" \in {n.tie, n.tied}) /\ ("start" \notin {n.tie, n.tied})
TieStopAndStart(i) ==
  LET n == allNotes[i].note IN
  ("stop" \in {n.tie, n.tied}) /\ ("start" \in {n.tie, n.tied})

\* i, j, k are a three-note tie chain: a tie-start note, a note with tie-stop
\* and tie-start, a tie-stop note, of the same pitch, staff and voice, with
\* no other tie-stop of that pitch, staff and voice in between
TieChain(i, j, k) ==
  /\ i < j /\ j < k
  /\ TieStartOnly(i) /\ TieStopAndStart(j) /\ TieStopOnly(k)
  /\ SameLine(i, j) /\ SameLine(j, k)
  /\ \A x \in (i + 1)..(k - 1) :
       (x # j /\ SameLine(i, x)) =>
         "stop" \notin {allNotes[x].note.tie, allNotes[x].note.tied}

\* the emitted notes pushed for first-pass entry i (none or one)
emittedFor(i) == SelectSeq(audioNotes.notes, LAMBDA e : e.index = i)

\* C23: a three-note tie chain is emitted as exactly one note, at the first
\* note's start beat, whose duration is the sum of the three durations; the
\* middle and the last note are not emitted.
C23_TieChainMergesIntoOneNote ==
  (returned /\ ~audioNotes.threw) =>
    \A i, j, k \in 1..Len(allNotes) :
      TieChain(i, j, k) =>
        /\ Len(emittedFor(i)) = 1
        /\ emittedFor(i)[1].beat = allNotes[i].beat
        /\ emittedFor(i)[1].note.pitch = allNotes[i].note.pitch
        /\ emittedFor(i)[1].note.duration =
             allNotes[i].note.duration + allNotes[j].note.duration
               + allNotes[k].note.duration
        /\ emittedFor(j) = <<>>
        /\ emittedFor(k) = <<>>

\* a chain whose notes are separated by a note of the other staff and lie
\* in two measures
C23_Witness ==
  /\ returned /\ ~audioNotes.threw
  /\ Len(allNotes) = 4
  /\ TieChain(1, 3, 4)
  /\ allNotes[2].staff = 2
  /\ allNotes[1].measureIndex = 0 /\ allNotes[4].measureIndex = 1
  /\ Len(audioNotes.notes) = 2
  /\ audioNotes.notes[1].note.duration = 6

\* entry i is a tie-start note that no earlier tie reaches and that no later
\* note of its pitch, staff and voice ends with a tie-stop
UnterminatedTieStart(i) ==
  LET n == allNotes[i].note IN
  /\ n.pitch # NoPitch
  /\ "start" \in {n.tie, n.tied}
  /\ \A j \in (i + 1)..Len(allNotes) :
       SameLine(i, j) =>
         "stop" \notin {allNotes[j].note.tie, allNotes[j].note.tied}
  /\ ("stop" \in {n.tie, n.tied}) =>
       \A x \in 1..(i - 1) :
         SameLine(x, i) =>
           "start" \notin {allNotes[x].note.tie, allNotes[x].note.tied}

ChordOn(i, c) ==
  /\ i < c
  /\ ~allNotes[i].note.isChord
  /\ allNotes[c].note.isChord
  /\ allNotes[c].staff = allNotes[i].staff
  /\ allNotes[c].measureIndex = allNotes[i].measureIndex
  /\ \A x \in (i + 1)..(c - 1) :
       allNotes[x].staff = allNotes[i].staff => allNotes[x].note.isChord

\* C25: the chord-continuation notes that follow a non-chord note on the
\* same staff in a measure all get that note's start beat, whatever notes of
\* other staves lie between them.
C25_ChordNotesShareStartBeat ==
  (returned /\ ~audioNotes.threw) =>
    \A i, c \in 1..Len(allNotes) :
      ChordOn(i, c) => allNotes[c].beat = allNotes[i].beat

\* a chord note on the second beat-position of staff 1, reached across a
\* note of staff 2, in the second measure
C25_Witness ==
  /\ returned /\ ~audioNotes.threw
  /\ Len(allNotes) = 4
  /\ allNotes[1].measureIndex = 1
  /\ allNotes[1].staff = 1 /\ allNotes[2].staff = 1 /\ allNotes[3].staff = 2
  /\ ChordOn(2, 4)
  /\ allNotes[2].beat > allNotes[1].beat
  /\ allNotes[4].beat = allNotes[2].beat

\* C26: the derivation never throws on incomplete notation: for a part
\* without measures, for measures without attributes or without a declared
\* beat count and for notes without a staff it returns a note list.
C26_DerivationNeverThrows == returned => ~audioNotes.threw

\* the beat slots the written tokens are to occupy: the token in the first
\* slot, then null placeholders; a note or chord with k dashes lasts k + 1
\* beats, a rest one beat, a group as long as its longest note
writtenBeats(t) ==
  LET placeholders(n) == [i \in 1..(n - 1) |-> NullBeat] IN
  CASE t.kind = "rest" -> << Beat(<< Token("rest", <<>>, 1) >>) >>
    [] t.kind = "note" ->
         << Beat(<< Token("note", << "d" >>, t.dashes + 1) >>) >>
         \o placeholders(t.dashes + 1)
    [] t.kind = "chord" ->
         << Beat(<< Token("chord", << "d", "-", "K" >>, t.dashes + 1) >>) >>
         \o placeholders(t.dashes + 1)
    [] OTHER ->
         << Beat([i \in 1..Len(t.inner) |->
                    Token("note", << "d" >>, t.inner[i] + 1)]) >>
         \o placeholders(SeqMax(t.inner) + 1)
RECURSIVE writtenLineBeats(_)
writtenLineBeats(ts) ==
  IF ts = <<>> THEN <<>>
  ELSE writtenBeats(Head(ts)) \o writtenLineBeats(Tail(ts))

\* the beats of all measures in order
RECURSIVE measureBeats(_)
measureBeats(ms) ==
  IF ms = <<>> THEN <<>> ELSE Head(ms) \o measureBeats(Tail(ms))

\* C27: each token of a notation line occupies as many consecutive beat
\* slots as it lasts, the first holding the token and the rest null: a note
\* with k dashes lasts k + 1 beats, `.` is a one-beat rest, a `-chord` token
\* with k trailing dashes is a chord of 1 + k beats, a bracketed group lasts
\* as long as its longest note.
C27_TokensFillTheirBeats ==
  measures # <<>> =>
    LET want == writtenLineBeats(notation)
        got == measureBeats(measures)
    IN /\ Len(got) >= Len(want)
       /\ SubSeq(got, 1, Len(want)) = want

\* C28: whenever no play() is pending, a stopped engine is stopped
\* throughout: a host is playing only if the engine's playing flag is true,
\* and while the flag is false no audio is scheduled.  In particular this
\* holds once the initialization that a pause overtook has completed.
C28_PauseDuringInitKeepsEngineStopped ==
  pending = <<>> =>
    /\ \A i \in HostIds : hosts[i].playing => playing
    /\ ~playing => (~audioScheduled /\ scheduledNotes = {})

\* the beat the animation clock implies for host h
animationBeat(h) ==
  h.playStartBeat + ((now - h.playStartTime) * BeatUnit) \div msPerBeat

\* C29: with audio initialized and an audio anchor set, the beat a frame
\* tick gives a ticking host is the audio-clock beat
\* audioStartBeat + (audioNow - audioStartTime) / secondsPerBeat wrapped into
\* the host's range, whatever the frame timestamp and the host's own
\* playStartTime and playStartBeat are.
C29_TickReadsAudioClock ==
  (NoMicrotask /\ AudioClockPath) =>
    \A i \in HostIds :
      Ticking(hosts[i]) =>
        \A h \in { tick(World, i).hosts[i] } :
          /\ h.progress = clockBeat % (hosts[i].totalBeats * BeatUnit)
          /\ \A t \in {0, now, now + TimeStep}, b \in {0, BeatUnit} :
               tick([World EXCEPT !.hosts[i].playStartTime = t,
                                  !.hosts[i].playStartBeat = b], i)
                 .hosts[i].progress = h.progress

\* a frame has put a host on the audio-clock beat where the animation clock
\* would have shown another beat
C29_Witness ==
  /\ AudioClockPath /\ playing /\ rafId /\ calls = <<>>
  /\ hosts # <<>> /\ Ticking(hosts[1])
  /\ audioNow > audioStartTime
  /\ hosts[1].progress = clockBeat % (hosts[1].totalBeats * BeatUnit)
  /\ hosts[1].progress > 0
  /\ hosts[1].progress
       # animationBeat(hosts[1]) % (hosts[1].totalBeats * BeatUnit)

\* C30: while the engine is playing, the frame that runs in any reachable
\* state leaves all ticking hosts (playing, not reduced, not scrubbing) that
\* have the same totalBeats at the same beat.
C30_HostsStayPhaseLocked ==
  (playing /\ NoMicrotask /\ rafId) =>
    \A w \in { tickFrom(World, 1) } :
      \A i \in HostIds, j \in HostIds :
        ( /\ Ticking(hosts[i])
          /\ Ticking(hosts[j])
          /\ hosts[i].totalBeats = hosts[j].totalBeats )
        => w.hosts[i].progress = w.hosts[j].progress

\* ------------------------------------------------------------ scrub release
\* two surfaces, pointer scrubbing and the resumed play(), at one instant
NextScrub ==
  \/ Play \/ Resume \/ Rebuild \/ PointerDown \/ PointerMove \/ PointerUp

SpecScrub == Init /\ [][NextScrub]_vars

\* host i is held by a scrub that began while the engine was playing, with
\* audio running and nothing else waiting to resume
ScrubHeld(i) ==
  /\ hosts[i].scrubbing
  /\ hosts[i].resumeAfterScrub
  /\ ~playing
  /\ pending = <<>>
  /\ audioInitialized
  /\ getCurrentTime(World) # NULL

\* C31: when the scrub held on any host is released and the play() it
\* issues resumes, audio is scheduled from the beat the scrubbed host shows
\* at release and the engine anchor beat is that beat.
C31_ResumeFromScrubbedBeat ==
  \A i \in HostIds :
    ScrubHeld(i) =>
      \A released \in { finishScrub(World, i) } :
        /\ released.playing
        /\ released.pending = << "micro" >>
        /\ \A w \in { resumeSetPlaying(released, 1) } :
             /\ Len(w.calls) = 1
             /\ w.calls[1].fromBeat = hosts[i].progress
             /\ w.audioStartBeat = hosts[i].progress

\* C32: in a reduced host that is playing with totalBeats > 0 and whose
\* interval timer runs, every firing of the timer sets the host's beat to
\* (its beat just before the firing + 1) mod totalBeats, a beat within
\* [0, totalBeats).
C32_IntervalStepAdvancesShownBeat ==
  \A i \in HostIds :
    ( /\ hosts[i].reduced
      /\ hosts[i].playing
      /\ hosts[i].interval
      /\ hosts[i].totalBeats > 0 )
    => \A h \in { intervalStep(hosts[i]) } :
         /\ h.progress =
              JsMod(hosts[i].progress + BeatUnit,
                    hosts[i].totalBeats * BeatUnit)
         /\ 0 <= h.progress
         /\ h.progress < hosts[i].totalBeats * BeatUnit

\* the timers host h has set with window.setInterval and not cleared are
\* the one its handle names, and that one runs only while h is playing and
\* reduced
TimerOk(h) ==
  /\ h.timers = (IF h.interval THEN 1 ELSE 0)
  /\ h.interval => (h.playing /\ h.reduced)

NoTimer(h) == ~h.interval /\ h.timers = 0

\* C33: in every reachable state each host has at most one interval timer,
\* and has it only while playing and reduced; a host pause(), a destroy(),
\* an engine pause and a rebuild leave no timer of the hosts that were
\* there, and a tempo change (also right after a re-measurement) leaves at
\* most one, on a playing reduced host.
C33_IntervalOnlyWhilePlayingReduced ==
  /\ \A i \in HostIds :
       /\ TimerOk(hosts[i])
       /\ NoTimer(hostPause(hosts[i]))
       /\ NoTimer(destroy(hosts[i]))
       /\ TimerOk(onTempoChange(hosts[i]))
       /\ \A lay \in Layouts :
            TimerOk(onTempoChange(remeasure(hosts[i], lay)))
  /\ \A w \in { setPlaying(World, FALSE) } :
       \A i \in 1..Len(w.hosts) : NoTimer(w.hosts[i])
  /\ \A w \in { destroyHosts(World) } :
       \A i \in 1..Len(w.hosts) : NoTimer(w.hosts[i])

\* a reduced host plays on its interval timer, restarted by a tempo change
C33_Witness ==
  /\ playing
  /\ tempo # defaultTempo
  /\ hosts # <<>>
  /\ hosts[1].reduced
  /\ hosts[1].playing
  /\ hosts[1].interval
  /\ hosts[1].timers = 1
  /\ hosts[1].progress > 0

\* tempo, audio anchor and scheduled audio of engine state w
scheduleState(w) ==
  << w.tempo, w.msPerBeat, w.audioStartTime, w.audioStartBeat,
     w.audioScheduled, w.scheduledNotes >>

\* the frame that runs now takes some ticking host across its totalBeats
FrameCrossesLoop ==
  /\ AudioClockPath
  /\ \E i \in HostIds :
       Ticking(hosts[i]) /\ clockBeat >= hosts[i].totalBeats * BeatUnit

\* performance.now() is positive whenever a handler runs, so the
\* playStartTime a playing animated host took from it is positive; the
\* model's clock starts at 0, and `!ctx.playStartTime` reads a 0 as unset
AnimationAnchored ==
  \A i \in HostIds : Ticking(hosts[i]) => hosts[i].playStartTime > 0

\* C34: a frame that takes no host across its totalBeats leaves the audio
\* anchor, the scheduled audio and each host's playStartBeat as they were and
\* makes no scheduling call; a wheel event, a scroll and a pointer-move of a
\* scrub (from the pointer-down on) leave tempo, audio anchor and scheduled
\* audio as they were and make no scheduling call.
C34_AnchorMovesOnlyOnEngineEvents ==
  /\ (NoMicrotask /\ rafId /\ ~FrameCrossesLoop /\ AnimationAnchored) =>
       \A w \in { tickFrom(World, 1) } :
         /\ scheduleState(w) = scheduleState(World)
         /\ w.calls = <<>>
         /\ \A i \in HostIds :
              w.hosts[i].playStartBeat = hosts[i].playStartBeat
  /\ NoMicrotask =>
       \A i \in HostIds :
         /\ \A deltaY \in WheelDeltas :
              \A w \in { onWheel(World, i, deltaY) } :
                scheduleState(w) = scheduleState(World) /\ w.calls = <<>>
         /\ \A x \in ScrollXs :
              \A h \in { handleScroll([hosts[i] EXCEPT !.scrollLeft = x]) } :
                scheduleState([World EXCEPT !.hosts[i] = h])
                  = scheduleState(World)
         /\ \A x0 \in PointerDownXs :
              \A held \in { onPointerDown(World, i, x0) } :
                \A x \in PointerXs :
                  \A w \in { onPointerMove(held, i, x) } :
                    /\ scheduleState(w) = scheduleState(held)
                    /\ w.calls = held.calls

\* a playing, anchored engine whose next frame moves a host within its loop
\* and whose host can be moved by the wheel
C34_Witness ==
  /\ playing /\ rafId /\ NoMicrotask
  /\ AudioClockPath /\ ~FrameCrossesLoop /\ AnimationAnchored
  /\ audioScheduled
  /\ hosts # <<>>
  /\ Ticking(hosts[1])
  /\ hosts[1].spacing > 0
  /\ clockBeat > 0
  /\ hosts[1].progress # clockBeat

\* what one scheduleNotes call made at audio time t, at tempo bpm, from
\* startBeat leaves scheduled when nothing was scheduled before it
OneCall(startBeat, t, bpm) ==
  scheduleNotes([World EXCEPT !.audioContext = TRUE, !.isInitialized = TRUE,
                              !.audioNow = t, !.tempo = bpm,
                              !.scheduledNotes = {}],
                startBeat).scheduledNotes

\* beats a schedule can start from, audio clock readings and valid tempos
\* within the bounds
StartBeats == { k * (BeatUnit \div 2) : k \in 0..4 }
ClockReadings == { k * TimeStep : k \in 0..MaxTicks }
ValidTempos == { 60, defaultTempo }

\* C35: in every reachable state the scheduled audio events are those of
\* one scheduling call (or none), and a scheduling call made there, from any
\* beat with or without delay, leaves exactly the events it creates itself.
C35_OneScheduleAtATime ==
  /\ \/ scheduledNotes = {}
     \/ \E b \in StartBeats, t \in ClockReadings, bpm \in ValidTempos :
          scheduledNotes = OneCall(b, t, bpm)
  /\ \A b \in StartBeats, d \in {0, playStartDelayMs} :
       \A r \in { scheduleAudio(World, b, d) } :
         r.ret # NULL =>
           r.w.scheduledNotes = OneCall(b, audioNow, tempo)

\* a playing engine rescheduled from beat 1 after the clock had moved: the
\* events of the schedule made at play() are gone
C35_Witness ==
  /\ playing
  /\ audioNow > 0
  /\ Len(calls) = 1
  /\ calls[1].fromBeat = BeatUnit
  /\ calls[1].ret = audioNow
  /\ scheduledNotes = OneCall(BeatUnit, audioNow, tempo)
  /\ Cardinality(scheduledNotes) = 2

\* entry f is the first entry after i with i's pitch, staff and voice
FirstCandidate(i, f) ==
  /\ i < f
  /\ SameLine(i, f)
  /\ \A x \in (i + 1)..(f - 1) : ~SameLine(i, x)

\* C36: when the first note after an emitted tie-start note that has its
\* pitch, staff and voice carries no tie-stop, the tie-start note is emitted
\* with its own duration: nothing further on is folded into it.
C36_TieSearchEndsAtFirstCandidate ==
  (returned /\ ~audioNotes.threw) =>
    \A i, f \in 1..Len(allNotes) :
      ( /\ "start" \in {allNotes[i].note.tie, allNotes[i].note.tied}
        /\ Len(emittedFor(i)) = 1
        /\ FirstCandidate(i, f)
        /\ "stop" \notin {allNotes[f].note.tie, allNotes[f].note.tied} )
      => emittedFor(i)[1].note.duration = allNotes[i].note.duration

\* the end-to-end scenario: two measures of four beats, one staff, notes of
\* durations 1, 2 (tie-start) and 1 (tie-stop) in the first measure
ExamplePart ==
  [measures |->
     << Measure(Attributes(4),
                << Note(Pitch("C"), 1, 1, 1, FALSE, "", ""),
                   Note(Pitch("C"), 1, 1, 2, FALSE, "start", ""),
                   Note(Pitch("C"), 1, 1, 1, FALSE, "stop", "") >>),
        Measure(Attributes(4), <<>>) >>]

\* what prepareNotesForAudio makes of the scenario
ExampleOutcome == prepareNotesForAudio(ExamplePart)

\* beat and duration of each emitted note
Timed(notes) ==
  [n \in 1..Len(notes) |-> << notes[n].beat, notes[n].note.duration >>]

\* C37: in every measure the first note of a staff starts at the measure's
\* first beat, and each later non-chord note of the staff starts where the
\* note before it on the staff starts plus that note's duration, be that note
\* pitched or a rest; a rest is not emitted; and the scenario part yields
\* exactly (beat 1, duration 1) and (beat 2, duration 3).
C37_StaffCursorAdvancesByDuration ==
  /\ (returned /\ ~audioNotes.threw) =>
       /\ \A k \in 0..(Len(part.measures) - 1), st \in {1, 2} :
            \A e \in { staffEntries(k, st) } :
              \A n \in 1..Len(e) :
                /\ n = 1 => e[n].beat = 1 + sumOfBeatCounts(k)
                /\ (n > 1 /\ ~e[n].note.isChord) =>
                     e[n].beat = e[n - 1].beat + e[n - 1].note.duration
       /\ \A i \in 1..Len(allNotes) :
            allNotes[i].note.pitch = NoPitch => emittedFor(i) = <<>>
  /\ ~ExampleOutcome.threw
  /\ Timed(ExampleOutcome.audioNotes) = << << 1, 1 >>, << 2, 3 >> >>

\* a rest between two pitched notes of staff 1 in the second measure: the
\* rest is left out and the note after it starts two beats later
C37_Witness ==
  /\ returned /\ ~audioNotes.threw
  /\ Len(part.measures) = 2
  /\ Len(allNotes) = 4
  /\ allNotes[2].measureIndex = 1
  /\ allNotes[2].note.pitch # NoPitch
  /\ allNotes[3].note.pitch = NoPitch
  /\ allNotes[4].note.pitch # NoPitch /\ ~allNotes[4].note.isChord
  /\ allNotes[4].staff = 1
  /\ allNotes[4].beat = allNotes[3].beat + 2
  /\ Timed(audioNotes.notes)[Len(audioNotes.notes)][1] = allNotes[4].beat
  /\ Len(audioNotes.notes) = 3

\* the sum of the durations of the notes of a first-pass or emitted list
RECURSIVE SumOfDurations(_)
SumOfDurations(notes) ==
  IF notes = <<>> THEN 0
  ELSE Head(notes).note.duration + SumOfDurations(Tail(notes))

\* the pitched entries of the first pass
PitchedNotes == SelectSeq(allNotes, LAMBDA e : e.note.pitch # NoPitch)

\* C38: the durations of the emitted notes add up to the durations of all
\* pitched input notes: every pitched note is emitted or folded into one
\* emitted note, and none is counted twice.
C38_TieMergeConservesDuration ==
  (returned /\ ~audioNotes.threw) =>
    SumOfDurations(audioNotes.notes) = SumOfDurations(PitchedNotes)

\* the part p without the n-th note of its m-th measure
WithoutNote(p, m, n) ==
  [measures |->
     [k \in 1..Len(p.measures) |->
        IF k # m THEN p.measures[k]
        ELSE Measure(p.measures[k].attributes,
                     SubSeq(p.measures[k].notes, 1, n - 1)
                       \o SubSeq(p.measures[k].notes, n + 1,
                                 Len(p.measures[k].notes)))]]

\* the staff a note is written on (staff 1 when it names none)
writtenStaff(note) == Max(note.staff, 1)

\* position in the first-pass list of the n-th note of the m-th measure
positionOf(m, n) ==
  Len(SelectSeq(allNotes, LAMBDA e : e.measureIndex < m - 1)) + n

\* C39: taking any one note out of the part leaves the start beat of every
\* note written on another staff as it was (so adding a note, or changing
\* one, on another staff does too).
C39_StaffCursorsIndependent ==
  (returned /\ ~audioNotes.threw) =>
    \A m \in 1..Len(part.measures) :
      \A n \in 1..Len(part.measures[m].notes) :
        \A x \in { positionOf(m, n) } :
          (\E i \in 1..Len(allNotes) :
             writtenStaff(allNotes[i].note) # writtenStaff(allNotes[x].note))
          => \A other \in { collectNotes(WithoutNote(part, m, n).measures,
                                         1, 1).notes } :
               /\ Len(other) = Len(allNotes) - 1
               /\ \A i \in 1..Len(allNotes) :
                    ( /\ i # x
                      /\ writtenStaff(allNotes[i].note)
                           # writtenStaff(allNotes[x].note) )
                    => /\ other[IF i < x THEN i ELSE i - 1].note
                            = allNotes[i].note
                       /\ other[IF i < x THEN i ELSE i - 1].beat
                            = allNotes[i].beat

\* a note of staff 2 between two notes of staff 1 in the second measure,
\* after a rest on staff 1
C39_Witness ==
  /\ returned /\ ~audioNotes.threw
  /\ Len(part.measures) = 2
  /\ Len(allNotes) = 4
  /\ allNotes[1].note.pitch = NoPitch
  /\ allNotes[2].measureIndex = 1
  /\ writtenStaff(allNotes[2].note) = 1
  /\ writtenStaff(allNotes[3].note) = 2
  /\ writtenStaff(allNotes[4].note) = 1
  /\ ~allNotes[4].note.isChord
  /\ allNotes[4].beat = allNotes[2].beat + allNotes[2].note.duration
  /\ allNotes[3].beat = allNotes[2].beat

\* ---------------------------------------------------------------- progress
\* Play, pause and rebuild requests and a hidden document, with every
\* suspended setPlaying(true) resuming in the end: the promise of initialize()
\* settles once its timer fires, and settled promises resume their awaiters
\* from the microtask queue.
NextLive == Play \/ Pause \/ Hide \/ Resume \/ Rebuild

SpecLive == Init /\ [][NextLive]_vars /\ WF_vars(Resume)

AllHostsPlaying == \A i \in HostIds : hosts[i].playing

\* C40: once play() has switched a stopped engine with at least one host to
\* playing, every host gets to the playing state, unless a pause request
\* (pause(), a hidden document) switches the engine back first; this is so
\* with and without an audio context.
C40_PlayStartsVisuals ==
  (playing /\ hosts # <<>>) ~> (~playing \/ AllHostsPlaying)

\* the continuation of play() has just run without an audio context (its
\* scheduling call returned null) and both hosts play
C40_Witness ==
  /\ ~audioAvailable
  /\ playing
  /\ Len(hosts) = 2
  /\ AllHostsPlaying
  /\ pending = <<>>
  /\ audioInitialized /\ ~audioContext
  /\ Len(calls) = 1 /\ calls[1].ret = NULL
====
